---- MODULE Spec2Model ----
(***************************************************************************)
(* Model of the collar crate: try_from_fn (the incremental array builder   *)
(* of src/lib.rs), its OnDrop cleanup guard, and the CollectArray wrappers *)
(* collect_array, collect_array_checked, try_collect_array and items.      *)
(*                                                                         *)
(* One behaviour of the model is one call of one entry point.  Every value *)
(* is a tagged tuple whose first component names its Rust constructor:     *)
(*   <<"Some", x>>  <<"None">>           Option                            *)
(*   <<"Ok", x>>    <<"Err", p>>         Result                            *)
(*   <<"()">>  <<"E", e>>  <<"usize", k>>  <<"Error", error, at>>   payloads*)
(*   <<"uninit">>  <<"init", x>>         one MaybeUninit slot              *)
(*   <<"Panic">>                         a call that unwinds               *)
(***************************************************************************)
EXTENDS Integers, Sequences, FiniteSets, TLC

\* ---------------------------------------------------------------- bounds
MaxN == 3

\* how often the exit path of one guard is invoked at most
MaxExits == 3

Vals == {1, 2}

Payloads == {"e1", "e2"}

Entries == {"try_from_fn", "collect_array", "collect_array_checked",
            "try_collect_array", "items"}

Shapes == {"option", "result"}

\* What the panic runtime does when a destructor panics while another panic
\* is already unwinding: abort at once, or unwind up to the enclosing
\* cleanup frame and abort there.  Both are produced by released toolchains.
Runtimes == {"abort_at_panic", "abort_at_cleanup"}

VARIABLES
  entry,     \* the entry point that was called
  shape,     \* which Maybe impl the generated elements use
  rt,        \* panic runtime, see Runtimes
  N,         \* const N: usize
  out,       \* let mut out = [MU::uninit(); N]
  elem,      \* loop index
  pc,        \* position inside the call
  guard,     \* outer OnDrop of the iteration: none/armed/forgotten/ran
  inner,     \* OnDrop nested in the cleanup closure: none/armed/forgotten/ran
  e,         \* value returned by x(elem).asr()?, not yet stored
  perr,      \* payload taken by `?`, not yet returned
  unw,       \* "none", or "gen" while the generator's panic unwinds
  pass,      \* 1: drop_in_place(p) of the closure; 2: the one of the guard
  dj,        \* next index drop_in_place visits
  glue,      \* "normal", or "cleanup" once an element destructor panicked
  doomed,    \* the panic in flight will reach a frame that cannot unwind
  drops,     \* per index: number of destructor invocations
  droplog,   \* indices in the order their destructors were invoked
  calls,     \* indices handed to the generator closure, in call order
  rets,      \* what each generator call returned
  pulls,     \* what each Iterator::next call returned
  result,    \* what the caller observes
  lhs,       \* left operand of an Error == Error comparison
  rhs,       \* right operand of the comparison
  eq,        \* what the comparison returned
  exits,     \* times OnDrop::drop was invoked on the guard under test
  runs       \* times the action of the guard under test was called

vars == <<entry, shape, rt, N, out, elem, pc, guard, inner, e, perr, unw,
          pass, dj, glue, doomed, drops, droplog, calls, rets, pulls, result,
          lhs, rhs, eq, exits, runs>>

\* the variables of the stand-alone checks, which a build leaves alone
harness == <<lhs, rhs, eq, exits, runs>>

\* ------------------------------------------------------------ pure helpers
NoneV == <<"None">>

SomeV(x) == <<"Some", x>>

OkV(x) == <<"Ok", x>>

ErrV(p) == <<"Err", p>>

Unit == <<"()">>

PanicV == <<"Panic">>

Uninit == <<"uninit">>

\* impl<T> Maybe for Option<T>: self.ok_or(())
AsrOption(o) == IF o[1] = "Some" THEN OkV(o[2]) ELSE ErrV(Unit)

\* an asr that keeps the failure but loses what it carried
AsrResultLossy(r) == IF r[1] = "Err" THEN ErrV(Unit) ELSE r

\* impl<T, E> Maybe for Result<T, E>: self
AsrResult(r) == r

Asr(sh, r) == IF sh = "option" THEN AsrOption(r) ELSE AsrResult(r)

\* Option::ok_or
OkOr(o, err) == IF o[1] = "Some" THEN OkV(o[2]) ELSE ErrV(err)

\* an error that reports the count of calls made instead of the index
MkErrorNext(x, at) == <<"Error", x, at + 1>>

\* Error { error: x, at: elem }
MkError(x, at) == <<"Error", x, at>>

\* an Error<N, E> value together with its const parameter N
ErrorOf(n, x, at) == [n |-> n, err |-> MkError(x, at)]

\* an equality that also compares the declared lengths
ErrorEqWithLen(a, b) ==
  (a.err[2] = b.err[2]) /\ (a.err[3] = b.err[3]) /\ (a.n = b.n)

\* impl PartialEq<Error<O, E>> for Error<N, E>:
\* (self.error == other.error) & (self.at == other.at)
ErrorEq(a, b) == (a.err[2] = b.err[2]) /\ (a.err[3] = b.err[3])

\* a shortfall report that counts the failing pull as well
CheckedClosureOneBased(nx, at) == OkOr(nx, <<"usize", at + 1>>)

\* |elem| self.next().ok_or(elem)
CheckedClosure(nx, at) == OkOr(nx, <<"usize", at>>)

\* a closure that reports every failure as if the iterator had run out
TryCollectClosureLossy(nx, at, sh) ==
  LET a == OkOr(nx, NoneV)
      b == IF a[1] = "Ok"
           THEN LET r == Asr(sh, a[2])
                IN IF r[1] = "Err" THEN ErrV(NoneV) ELSE r
           ELSE a
  IN IF b[1] = "Err" THEN ErrV(MkError(b[2], at)) ELSE b

\* a closure that flattens next() first, so that an item that is None is
\* taken for the end of the iterator
TryCollectClosureFlattened(nx, at, sh) ==
  LET a == IF sh = "option" /\ nx[1] = "Some" /\ nx[2][1] = "None"
           THEN ErrV(NoneV)
           ELSE OkOr(nx, NoneV)
      b == IF a[1] = "Ok"
           THEN LET r == Asr(sh, a[2])
                IN IF r[1] = "Err" THEN ErrV(SomeV(r[2])) ELSE r
           ELSE a
  IN IF b[1] = "Err" THEN ErrV(MkError(b[2], at)) ELSE b

\* |elem| self.next().ok_or(None).and_then(|x| x.asr().map_err(Some))
\*                   .map_err(|x| Error { error: x, at: elem })
TryCollectClosure(nx, at, sh) ==
  LET a == OkOr(nx, NoneV)
      b == IF a[1] = "Ok"
           THEN LET r == Asr(sh, a[2])
                IN IF r[1] = "Err" THEN ErrV(SomeV(r[2])) ELSE r
           ELSE a
  IN IF b[1] = "Err" THEN ErrV(MkError(b[2], at)) ELSE b

\* the Maybe impl of the closure's return type R
RShape(en, sh) == IF en = "try_from_fn" THEN sh ELSE "result"

\* a loop over 0..=N
LoopCondInclusive(el, n) == el <= n

\* for elem in 0..N
LoopCond(el, n) == el < n

\* a cleanup range that stops one slot short: out[..elem - 1]
PrefixShort(el) == 0 .. (el - 2)

\* &raw mut out[..elem]
Prefix(el) == 0 .. (el - 1)

\* transmute_unchecked(out): the same bits read as [T; N]
transmute_unchecked(buf) == [i \in DOMAIN buf |-> buf[i][2]]

\* ------------------------------------------------------------------ inputs
\* values a directly supplied generator can return
RawGen(sh) ==
  IF sh = "option"
  THEN {SomeV(v) : v \in Vals} \cup {NoneV}
  ELSE {OkV(v) : v \in Vals} \cup {ErrV(<<"E", p>>) : p \in Payloads}

\* items an iterator of fallible items can yield
Items(sh) == RawGen(sh)

\* values Iterator::next can return
NextResults(en, sh) ==
  IF en = "try_collect_array"
  THEN {SomeV(it) : it \in Items(sh)} \cup {NoneV}
  ELSE {SomeV(v) : v \in Vals} \cup {NoneV}

Init ==
  /\ entry \in Entries
  /\ shape \in Shapes
  /\ rt \in Runtimes
  /\ N \in 0 .. MaxN
  /\ out = [i \in 0 .. (N - 1) |-> Uninit]
  /\ elem = 0
  /\ pc = IF entry = "items" THEN "iloop" ELSE "loop"
  /\ guard = "none"
  /\ inner = "none"
  /\ e = Uninit
  /\ perr = Uninit
  /\ unw = "none"
  /\ pass = 1
  /\ dj = 0
  /\ glue = "normal"
  /\ doomed = FALSE
  /\ drops = [i \in 0 .. (N - 1) |-> 0]
  /\ droplog = <<>>
  /\ calls = <<>>
  /\ rets = <<>>
  /\ pulls = <<>>
  /\ result = <<"running">>
  /\ lhs = ErrorOf(0, NoneV, 0)
  /\ rhs = ErrorOf(0, NoneV, 0)
  /\ eq = FALSE
  /\ exits = 0
  /\ runs = 0

\* ------------------------------------------------ what the caller observes
\* Ok(unsafe { transmute_unchecked(out) }), seen through the wrapper
ReturnOk(en, buf) ==
  IF en = "collect_array"
  THEN <<"Array", transmute_unchecked(buf)>>
  ELSE OkV(transmute_unchecked(buf))

\* a panic message whose two format arguments are swapped
ReturnErrSwapped(en, p, n) ==
  IF en = "collect_array"
  THEN <<"Panic", <<"couldnt fill buffer", p[2], n>>>>
  ELSE ErrV(p)

\* the `?` of try_from_fn, seen through the wrapper: collect_array turns
\* Err(x) into panic!("couldnt fill buffer of length {N} only had {x} elements")
ReturnErr(en, p, n) ==
  IF en = "collect_array"
  THEN <<"Panic", <<"couldnt fill buffer", n, p[2]>>>>
  ELSE ErrV(p)

Unwound(src) == <<"Panic", <<src>>>>

Aborted == <<"Abort">>

\* the generator closure each entry point hands to try_from_fn
Closure(en, sh, nx, at) ==
  CASE en = "try_collect_array" -> TryCollectClosure(nx, at, sh)
    [] en \in {"collect_array", "collect_array_checked"} -> CheckedClosure(nx, at)
    [] OTHER -> nx

\* ------------------------------------------------------ try_from_fn, loop
\* let guard = OnDrop::guard(|| ...)
ArmGuard ==
  /\ pc = "loop"
  /\ LoopCond(elem, N)
  /\ guard' = "armed"
  /\ pc' = "call"
  /\ UNCHANGED harness
  /\ UNCHANGED <<entry, shape, rt, N, out, elem, inner, e, perr, unw, pass,
                 dj, glue, doomed, drops, droplog, calls, rets, pulls, result>>

\* a `?` that never leaves: the payload is taken for a value
QuestionIgnored(a) == <<"continue", a[2]>>

\* the `?` applied to what asr() returned: go on with the value, or leave
\* try_from_fn with the payload
Question(a) == IF a[1] = "Ok" THEN <<"continue", a[2]>> ELSE <<"return", a[2]>>

\* a wrapper closure that calls next() twice and keeps the first result
GenReturnsGreedy ==
  /\ pc = "call"
  /\ \E src \in (IF entry = "try_from_fn" THEN RawGen(shape)
                                           ELSE NextResults(entry, shape)) :
       LET r == Closure(entry, shape, src, elem)
           q == Question(Asr(RShape(entry, shape), r))
       IN /\ calls' = Append(calls, elem)
          /\ rets' = Append(rets, r)
          /\ pulls' = IF entry = "try_from_fn" THEN pulls
                      ELSE Append(Append(pulls, src), src)
          /\ IF q[1] = "continue"
             THEN /\ e' = q[2]
                  /\ pc' = "forget"
                  /\ perr' = perr
             ELSE /\ perr' = q[2]
                  /\ pc' = "cleanup"
                  /\ e' = e
  /\ UNCHANGED harness
  /\ UNCHANGED <<entry, shape, rt, N, out, elem, guard, inner, unw, pass, dj,
                 glue, doomed, drops, droplog, result>>

\* x(elem) returns, .asr()? is applied
GenReturns ==
  /\ pc = "call"
  /\ \E src \in (IF entry = "try_from_fn" THEN RawGen(shape)
                                           ELSE NextResults(entry, shape)) :
       LET r == Closure(entry, shape, src, elem)
           q == Question(Asr(RShape(entry, shape), r))
       IN /\ calls' = Append(calls, elem)
          /\ rets' = Append(rets, r)
          /\ pulls' = IF entry = "try_from_fn" THEN pulls ELSE Append(pulls, src)
          /\ IF q[1] = "continue"
             THEN /\ e' = q[2]
                  /\ pc' = "forget"
                  /\ perr' = perr
             ELSE /\ perr' = q[2]
                  /\ pc' = "cleanup"
                  /\ e' = e
  /\ UNCHANGED harness
  /\ UNCHANGED <<entry, shape, rt, N, out, elem, guard, inner, unw, pass, dj,
                 glue, doomed, drops, droplog, result>>

\* x(elem) panics (the closure itself, or the iterator's next)
GenPanics ==
  /\ pc = "call"
  /\ calls' = Append(calls, elem)
  /\ rets' = Append(rets, PanicV)
  /\ pulls' = IF entry = "try_from_fn" THEN pulls ELSE Append(pulls, PanicV)
  /\ unw' = "gen"
  /\ pc' = "cleanup"
  /\ UNCHANGED harness
  /\ UNCHANGED <<entry, shape, rt, N, out, elem, guard, inner, e, perr, pass,
                 dj, glue, doomed, drops, droplog, result>>

\* an iteration that goes on to the store without forget(guard)
ForgetGuardSkipped ==
  /\ pc = "forget"
  /\ pc' = "write"
  /\ UNCHANGED harness
  /\ UNCHANGED <<entry, shape, rt, N, out, elem, guard, inner, e, perr, unw,
                 pass, dj, glue, doomed, drops, droplog, calls, rets, pulls,
                 result>>

\* forget(guard)
ForgetGuard ==
  /\ pc = "forget"
  /\ guard' = "forgotten"
  /\ pc' = "write"
  /\ UNCHANGED harness
  /\ UNCHANGED <<entry, shape, rt, N, out, elem, inner, e, perr, unw, pass,
                 dj, glue, doomed, drops, droplog, calls, rets, pulls, result>>

\* the store of a builder that fills the buffer from its far end
WriteSlotReversed ==
  /\ pc = "write"
  /\ out' = [out EXCEPT ![N - 1 - elem] = <<"init", e>>]
  /\ elem' = elem + 1
  /\ e' = Uninit
  /\ guard' = "none"
  /\ pc' = "loop"
  /\ UNCHANGED harness
  /\ UNCHANGED <<entry, shape, rt, N, inner, perr, unw, pass, dj, glue,
                 doomed, drops, droplog, calls, rets, pulls, result>>

\* out[elem] = MU::new(e), and the loop advances
WriteSlot ==
  /\ pc = "write"
  /\ out' = [out EXCEPT ![elem] = <<"init", e>>]
  /\ elem' = elem + 1
  /\ e' = Uninit
  /\ guard' = "none"
  /\ pc' = "loop"
  /\ UNCHANGED harness
  /\ UNCHANGED <<entry, shape, rt, N, inner, perr, unw, pass, dj, glue,
                 doomed, drops, droplog, calls, rets, pulls, result>>

\* Ok(unsafe { transmute_unchecked(out) })
Finish ==
  /\ pc = "loop"
  /\ ~LoopCond(elem, N)
  /\ result' = ReturnOk(entry, out)
  /\ pc' = "done"
  /\ UNCHANGED harness
  /\ UNCHANGED <<entry, shape, rt, N, out, elem, guard, inner, e, perr, unw,
                 pass, dj, glue, doomed, drops, droplog, calls, rets, pulls>>

\* ------------------------------------------- the cleanup closure of `guard`
\* a cleanup that destroys only the element stored last: out[elem - 1]
GuardRunsFromLast ==
  /\ pc = "cleanup"
  /\ guard = "armed"
  /\ guard' = "ran"
  /\ inner' = "armed"
  /\ pass' = 1
  /\ dj' = IF elem > 0 THEN elem - 1 ELSE 0
  /\ glue' = "normal"
  /\ pc' = "droploop"
  /\ UNCHANGED harness
  /\ UNCHANGED <<entry, shape, rt, N, out, elem, e, perr, unw, doomed, drops,
                 droplog, calls, rets, pulls, result>>

\* OnDrop::drop of the outer guard: MD::take(&mut self.f)() starts the
\* closure, which takes p = &raw mut out[..elem] and arms the nested guard
GuardRuns ==
  /\ pc = "cleanup"
  /\ guard = "armed"
  /\ guard' = "ran"
  /\ inner' = "armed"
  /\ pass' = 1
  /\ dj' = 0
  /\ glue' = "normal"
  /\ pc' = "droploop"
  /\ UNCHANGED harness
  /\ UNCHANGED <<entry, shape, rt, N, out, elem, e, perr, unw, doomed, drops,
                 droplog, calls, rets, pulls, result>>

\* a panic is already unwinding when the destructor at dj is invoked
InFlight == unw = "gen" \/ pass = 2 \/ glue = "cleanup"

\* drop_in_place(p) invokes the destructor of element dj, which returns
DropReturns ==
  /\ pc = "droploop"
  /\ dj \in Prefix(elem)
  /\ drops' = [drops EXCEPT ![dj] = @ + 1]
  /\ droplog' = Append(droplog, dj)
  /\ dj' = dj + 1
  /\ UNCHANGED harness
  /\ UNCHANGED <<entry, shape, rt, N, out, elem, pc, guard, inner, e, perr,
                 unw, pass, glue, doomed, calls, rets, pulls, result>>

\* drop_in_place(p) invokes the destructor of element dj, which panics.
\* The slice drop glue goes on with the remaining elements on its unwind
\* path; a panic leaving a destructor on an unwind path aborts the process.
DropPanics ==
  /\ pc = "droploop"
  /\ dj \in Prefix(elem)
  /\ drops' = [drops EXCEPT ![dj] = @ + 1]
  /\ droplog' = Append(droplog, dj)
  /\ IF glue = "cleanup" \/ (InFlight /\ rt = "abort_at_panic")
     THEN /\ pc' = "done"
          /\ result' = Aborted
          /\ UNCHANGED <<dj, glue, doomed>>
     ELSE /\ glue' = "cleanup"
          /\ doomed' = (doomed \/ InFlight)
          /\ dj' = dj + 1
          /\ UNCHANGED <<pc, result>>
  /\ UNCHANGED harness
  /\ UNCHANGED <<entry, shape, rt, N, out, elem, guard, inner, e, perr, unw,
                 pass, calls, rets, pulls>>

\* drop_in_place(p) returned: forget(guard) of the nested guard, the closure
\* returns, and try_from_fn returns the error or goes on unwinding
CleanupReturns ==
  /\ pc = "droploop"
  /\ pass = 1
  /\ dj \notin Prefix(elem)
  /\ glue = "normal"
  /\ inner' = "forgotten"
  /\ result' = IF unw = "gen" THEN Unwound("gen") ELSE ReturnErr(entry, perr, N)
  /\ pc' = "done"
  /\ UNCHANGED harness
  /\ UNCHANGED <<entry, shape, rt, N, out, elem, guard, e, perr, unw, pass,
                 dj, glue, doomed, drops, droplog, calls, rets, pulls>>

\* drop_in_place(p) unwound: the nested guard is dropped while armed and
\* calls drop_in_place(p) on the same prefix
InnerGuardRuns ==
  /\ pc = "droploop"
  /\ pass = 1
  /\ dj \notin Prefix(elem)
  /\ glue = "cleanup"
  /\ inner' = "ran"
  /\ pass' = 2
  /\ dj' = 0
  /\ glue' = "normal"
  /\ UNCHANGED harness
  /\ UNCHANGED <<entry, shape, rt, N, out, elem, pc, guard, e, perr, unw,
                 doomed, drops, droplog, calls, rets, pulls, result>>

\* the drop_in_place run on an unwind path is over: the panic reaches the
\* caller, unless it has to cross a frame that cannot unwind
UnwindLeaves ==
  /\ pc = "droploop"
  /\ pass = 2
  /\ dj \notin Prefix(elem)
  /\ result' = IF doomed THEN Aborted
               ELSE IF unw = "gen" THEN Unwound("gen") ELSE Unwound("drop")
  /\ pc' = "done"
  /\ UNCHANGED harness
  /\ UNCHANGED <<entry, shape, rt, N, out, elem, guard, inner, e, perr, unw,
                 pass, dj, glue, doomed, drops, droplog, calls, rets, pulls>>

\* --------------------------------------------- items: from_fn(|_| next())
\* an iteration that stops asking once next() has returned None, and fills
\* the slot with None by itself
ItemsCallFused ==
  /\ pc = "iloop"
  /\ elem < N
  /\ IF \E i \in 1 .. Len(pulls) : pulls[i][1] = "None"
     THEN /\ out' = [out EXCEPT ![elem] = <<"init", NoneV>>]
          /\ rets' = Append(rets, NoneV)
          /\ pulls' = pulls
     ELSE \E nx \in NextResults(entry, shape) :
            /\ pulls' = Append(pulls, nx)
            /\ rets' = Append(rets, nx)
            /\ out' = [out EXCEPT ![elem] = <<"init", nx>>]
  /\ calls' = Append(calls, elem)
  /\ elem' = elem + 1
  /\ UNCHANGED harness
  /\ UNCHANGED <<entry, shape, rt, N, pc, guard, inner, e, perr, unw, pass,
                 dj, glue, doomed, drops, droplog, result>>

\* one iteration of core::array::from_fn: the closure is called with the
\* index and what next() returned is stored in the slot
ItemsCall ==
  /\ pc = "iloop"
  /\ elem < N
  /\ \E nx \in NextResults(entry, shape) :
       /\ pulls' = Append(pulls, nx)
       /\ rets' = Append(rets, nx)
       /\ out' = [out EXCEPT ![elem] = <<"init", nx>>]
  /\ calls' = Append(calls, elem)
  /\ elem' = elem + 1
  /\ UNCHANGED harness
  /\ UNCHANGED <<entry, shape, rt, N, pc, guard, inner, e, perr, unw, pass,
                 dj, glue, doomed, drops, droplog, result>>

\* next() panics inside from_fn: the slots written so far are dropped on
\* the unwind path
ItemsPanics ==
  /\ pc = "iloop"
  /\ elem < N
  /\ pulls' = Append(pulls, PanicV)
  /\ rets' = Append(rets, PanicV)
  /\ calls' = Append(calls, elem)
  /\ unw' = "gen"
  /\ pass' = 2
  /\ dj' = 0
  /\ pc' = "droploop"
  /\ UNCHANGED harness
  /\ UNCHANGED <<entry, shape, rt, N, out, elem, guard, inner, e, perr, glue,
                 doomed, drops, droplog, result>>

ItemsFinish ==
  /\ pc = "iloop"
  /\ ~(elem < N)
  /\ result' = <<"Array", transmute_unchecked(out)>>
  /\ pc' = "done"
  /\ UNCHANGED harness
  /\ UNCHANGED <<entry, shape, rt, N, out, elem, guard, inner, e, perr, unw,
                 pass, dj, glue, doomed, drops, droplog, calls, rets, pulls>>

Next ==
  \/ ArmGuard
  \/ GenReturns
  \/ GenPanics
  \/ ForgetGuard
  \/ WriteSlot
  \/ Finish
  \/ GuardRuns
  \/ DropReturns
  \/ DropPanics
  \/ CleanupReturns
  \/ InnerGuardRuns
  \/ UnwindLeaves
  \/ ItemsCall
  \/ ItemsPanics
  \/ ItemsFinish

Spec == Init /\ [][Next]_vars

\* ------------------------------------------- comparing two Error values
\* the payloads an Error can carry in its `error` field
ErrorPayloads == {NoneV} \cup {SomeV(<<"E", p>>) : p \in Payloads}

\* two Error values, built against lengths N and O, about to be compared
InitEq ==
  /\ entry = "try_collect_array"
  /\ shape = "result"
  /\ rt = "abort_at_panic"
  /\ N = 0
  /\ out = <<>>
  /\ elem = 0
  /\ pc = "eq"
  /\ guard = "none"
  /\ inner = "none"
  /\ e = Uninit
  /\ perr = Uninit
  /\ unw = "none"
  /\ pass = 1
  /\ dj = 0
  /\ glue = "normal"
  /\ doomed = FALSE
  /\ drops = <<>>
  /\ droplog = <<>>
  /\ calls = <<>>
  /\ rets = <<>>
  /\ pulls = <<>>
  /\ result = <<"running">>
  /\ \E n \in 0 .. MaxN, o \in 0 .. MaxN, at1 \in 0 .. MaxN, at2 \in 0 .. MaxN :
       \E x1 \in ErrorPayloads, x2 \in ErrorPayloads :
         /\ lhs = ErrorOf(n, x1, at1)
         /\ rhs = ErrorOf(o, x2, at2)
  /\ eq = FALSE
  /\ exits = 0
  /\ runs = 0

\* lhs == rhs
Compare ==
  /\ pc = "eq"
  /\ eq' = ErrorEq(lhs, rhs)
  /\ pc' = "eqdone"
  /\ UNCHANGED <<entry, shape, rt, N, out, elem, guard, inner, e, perr, unw,
                 pass, dj, glue, doomed, drops, droplog, calls, rets, pulls,
                 result, lhs, rhs, exits, runs>>

NextEq == Compare

SpecEq == InitEq /\ [][NextEq]_vars

\* ------------------------------------------------- one OnDrop guard alone
\* OnDrop::guard(x) over a buffer whose first elem slots are stored; the
\* action x destroys that prefix
InitGuard ==
  /\ entry = "try_from_fn"
  /\ shape = "result"
  /\ rt = "abort_at_panic"
  /\ N \in 0 .. MaxN
  /\ elem \in 0 .. N
  /\ \E f \in [0 .. (N - 1) -> Vals] :
       out = [i \in 0 .. (N - 1) |->
                IF i < elem THEN <<"init", f[i]>> ELSE Uninit]
  /\ pc = "guarded"
  /\ guard = "armed"
  /\ inner = "none"
  /\ e = Uninit
  /\ perr = Uninit
  /\ unw = "none"
  /\ pass = 1
  /\ dj = 0
  /\ glue = "normal"
  /\ doomed = FALSE
  /\ drops = [i \in 0 .. (N - 1) |-> 0]
  /\ droplog = <<>>
  /\ calls = <<>>
  /\ rets = <<>>
  /\ pulls = <<>>
  /\ result = <<"running">>
  /\ lhs = ErrorOf(0, NoneV, 0)
  /\ rhs = ErrorOf(0, NoneV, 0)
  /\ eq = FALSE
  /\ exits = 0
  /\ runs = 0

\* an exit path that keeps the action in an Option and takes it out:
\* a second invocation finds None and does nothing
OnDropDropOnce ==
  /\ pc = "guarded"
  /\ guard \in {"armed", "ran"}
  /\ exits < MaxExits
  /\ exits' = exits + 1
  /\ runs' = IF guard = "armed" THEN runs + 1 ELSE runs
  /\ drops' = [i \in DOMAIN drops |->
                 IF i \in Prefix(elem) /\ guard = "armed"
                 THEN drops[i] + 1 ELSE drops[i]]
  /\ guard' = "ran"
  /\ UNCHANGED <<entry, shape, rt, N, out, elem, pc, inner, e, perr, unw,
                 pass, dj, glue, doomed, droplog, calls, rets, pulls, result,
                 lhs, rhs, eq>>

\* impl Drop for OnDrop: MD::take(&mut self.f)().  ManuallyDrop::take reads
\* the action out of the slot and leaves the slot's contents as they were,
\* so every invocation calls the action
OnDropDrop ==
  /\ pc = "guarded"
  /\ guard \in {"armed", "ran"}
  /\ exits < MaxExits
  /\ exits' = exits + 1
  /\ runs' = runs + 1
  /\ drops' = [i \in DOMAIN drops |->
                 IF i \in Prefix(elem) THEN drops[i] + 1 ELSE drops[i]]
  /\ guard' = "ran"
  /\ UNCHANGED <<entry, shape, rt, N, out, elem, pc, inner, e, perr, unw,
                 pass, dj, glue, doomed, droplog, calls, rets, pulls, result,
                 lhs, rhs, eq>>

\* forget(guard): the guard is given up without its exit path being invoked
OnDropForget ==
  /\ pc = "guarded"
  /\ guard = "armed"
  /\ guard' = "forgotten"
  /\ UNCHANGED <<entry, shape, rt, N, out, elem, pc, inner, e, perr, unw,
                 pass, dj, glue, doomed, drops, droplog, calls, rets, pulls,
                 result, lhs, rhs, eq, exits, runs>>

NextGuard ==
  \/ OnDropDrop
  \/ OnDropForget

SpecGuard == InitGuard /\ [][NextGuard]_vars

TypeOK ==
  /\ entry \in Entries
  /\ N \in 0 .. MaxN
  /\ elem \in 0 .. N
  /\ pc \in {"loop", "call", "forget", "write", "cleanup", "droploop",
             "iloop", "done"}
  /\ guard \in {"none", "armed", "forgotten", "ran"}

\* ------------------------------------------------------------- properties
Done == pc = "done"

Succeeded == result[1] \in {"Ok", "Array"}

\* a generator return that is a failure / a built element
IsFailure(r) == r[1] \in {"Err", "None"}

IsBuilt(r) == r[1] \in {"Ok", "Some"}

IsPanic(r) == r[1] = "Panic"

Core == entry # "items"

\* index of the generator call made last
LastIdx == Len(rets) - 1

\* C1: when the generator's first failure is at index k, each element built
\* at 0..k-1 is destroyed exactly once and nothing at k or later is: no
\* destructor runs twice at any time, and by the end of the call every
\* element of the prefix has been destroyed.
C1_FailureDestroysPrefixOnce ==
  (Core /\ Len(rets) > 0 /\ IsFailure(rets[Len(rets)])) =>
    /\ \A i \in DOMAIN drops : drops[i] <= (IF i < LastIdx THEN 1 ELSE 0)
    /\ Done => \A i \in DOMAIN drops : i < LastIdx => drops[i] = 1

\* C2: when the generator panics during its call at index k, each element
\* of the prefix [0, k) is destroyed exactly once before the panic leaves
\* try_from_fn, and slot k and later slots are never destroyed.
C2_PanicDestroysPrefixOnce ==
  (Core /\ Len(rets) > 0 /\ IsPanic(rets[Len(rets)])) =>
    /\ \A i \in DOMAIN drops : drops[i] <= (IF i < LastIdx THEN 1 ELSE 0)
    /\ Done => \A i \in DOMAIN drops : i < LastIdx => drops[i] = 1

\* C3: a build whose N generator calls all succeed returns the array whose
\* element i is the value the call with index i produced (for the iterator
\* wrappers, the i-th item pulled).
C3_OrderPreserved ==
  (Core /\ Done /\ Succeeded) =>
    /\ DOMAIN result[2] = 0 .. (N - 1)
    /\ Len(rets) = N
    /\ \A i \in 0 .. (N - 1) :
         /\ calls[i + 1] = i
         /\ result[2][i] = rets[i + 1][2]
         /\ entry \in {"collect_array", "collect_array_checked"} =>
              result[2][i] = pulls[i + 1][2]
         /\ entry = "try_collect_array" => result[2][i] = pulls[i + 1][2][2]

C3_Witness ==
  /\ Done /\ Succeeded /\ entry = "try_collect_array"
  /\ N >= 2
  /\ result[2][0] # result[2][1]

\* C4: the generator is called with 0, 1, 2, ... in increasing order, once
\* per index, never after a call that failed or panicked; a successful
\* build makes N calls and one failing at index k makes k + 1.
C4_CallsInOrder ==
  Core =>
    /\ Len(calls) = Len(rets)
    /\ Len(calls) <= N
    /\ \A i \in 1 .. Len(calls) : calls[i] = i - 1
    /\ \A i \in 1 .. (Len(rets) - 1) : IsBuilt(rets[i])
    /\ (Done /\ Succeeded) => Len(calls) = N
    /\ (Done /\ ~Succeeded) => ~IsBuilt(rets[Len(rets)])

C4_Witness ==
  /\ entry = "try_from_fn" /\ Done
  /\ Len(calls) = 2 /\ IsFailure(rets[2])
  /\ N = 3

\* a pull that stops the build: the iterator ran out, or the item failed
PullFails(p) == p[1] = "None" \/ (p[1] = "Some" /\ IsFailure(p[2]))

TryCollectFailed == entry = "try_collect_array" /\ Done /\ result[1] = "Err"

\* C5: when the first failing pull of try_collect_array is the one with
\* 0-based index k, the returned error's `at` is k, and k <= N - 1.
C5_AtIsFailingIndex ==
  TryCollectFailed =>
    /\ result[2][1] = "Error"
    /\ PullFails(pulls[Len(pulls)])
    /\ \A i \in 1 .. (Len(pulls) - 1) : ~PullFails(pulls[i])
    /\ result[2][3] = Len(pulls) - 1
    /\ result[2][3] <= N - 1

C5_Witness == TryCollectFailed /\ Len(pulls) = 3 /\ result[2][3] = 2

\* C6: an iterator that runs out at position k gives error = None at k; an
\* item that is an explicit failure Err(e) at position k gives
\* error = Some(e) at k.
C6_ExhaustionVsFailure ==
  TryCollectFailed =>
    LET last == pulls[Len(pulls)]
    IN /\ last[1] = "None" =>
            /\ result[2][2] = <<"None">>
            /\ result[2][3] = Len(pulls) - 1
       /\ (last[1] = "Some" /\ last[2][1] = "Err") =>
            /\ result[2][2] = <<"Some", last[2][2]>>
            /\ result[2][3] = Len(pulls) - 1

C6_Witness ==
  /\ TryCollectFailed /\ Len(pulls) = 2
  /\ pulls[2] = <<"Some", <<"Err", <<"E", "e2">>>>>>
  /\ result[2][2] = <<"Some", <<"E", "e2">>>>

\* the item pulled last is an Option that is None
LastItemIsNone ==
  /\ TryCollectFailed /\ shape = "option"
  /\ pulls[Len(pulls)][1] = "Some"
  /\ pulls[Len(pulls)][2][1] = "None"

\* C7 as stated: an item that is None at position k gives an error whose
\* payload is none (as for exhaustion) at index k.
C7_NoneItemGivesNoPayload ==
  LastItemIsNone =>
    /\ result[2][2] = <<"None">>
    /\ result[2][3] = Len(pulls) - 1

\* C7, amended: an item that is None at position k gives an error whose
\* payload is Some(()) at index k, which differs from exhaustion's None.
C7_NoneItemGivesUnit ==
  LastItemIsNone =>
    /\ result[2][2] = <<"Some", <<"()">>>>
    /\ result[2][2] # <<"None">>
    /\ result[2][3] = Len(pulls) - 1

C7_Witness == LastItemIsNone /\ Len(pulls) = 1 /\ N = 3

\* C8 as stated: when the generator fails at index elem, what try_from_fn
\* returns is a Structured Error with at = elem.
C8_ReturnsStructuredError ==
  (Core /\ Done /\ result[1] = "Err") =>
    /\ result[2][1] = "Error"
    /\ result[2][3] = LastIdx

\* C8, amended: when the generator fails at index elem, try_from_fn returns
\* Err with the generator's own payload unchanged (the value carried by an
\* Err, () for a None) and calls the generator no more; it adds no index,
\* so the result has at = elem only where the generator built a Structured
\* Error itself, as the closure of try_collect_array does.
C8_ReturnsGeneratorPayload ==
  (Core /\ Done /\ result[1] = "Err") =>
    LET r == rets[Len(rets)]
    IN /\ IsFailure(r)
       /\ r[1] = "Err" => result[2] = r[2]
       /\ r[1] = "None" => result[2] = <<"()">>
       /\ entry = "try_from_fn" => result[2][1] \in {"E", "()"}
       /\ entry = "try_collect_array" =>
            result[2][1] = "Error" /\ result[2][3] = LastIdx

C8_Witness ==
  /\ entry = "try_from_fn" /\ shape = "result" /\ Done
  /\ Len(rets) = 2
  /\ result = <<"Err", <<"E", "e1">>>>

\* C9: collect_array_checked returns the array of the first N items when
\* the iterator yields N items, and otherwise Err(k) where k < N is the
\* number of items obtained before the iterator ran out.
C9_CheckedCount ==
  (entry = "collect_array_checked" /\ Done /\ result[1] \in {"Ok", "Err"}) =>
    /\ \A i \in 1 .. (Len(pulls) - 1) : pulls[i][1] = "Some"
    /\ IF Len(pulls) = N /\ \A i \in 1 .. N : pulls[i][1] = "Some"
       THEN /\ result[1] = "Ok"
            /\ result[2] = [i \in 0 .. (N - 1) |-> pulls[i + 1][2]]
       ELSE /\ pulls[Len(pulls)][1] = "None"
            /\ result[1] = "Err"
            /\ result[2] = <<"usize", Len(pulls) - 1>>
            /\ Len(pulls) - 1 < N

C9_Witness ==
  /\ entry = "collect_array_checked" /\ Done
  /\ N = 3
  /\ result = <<"Err", <<"usize", 2>>>>

\* C10: for N = 0 every entry point returns the empty array and calls
\* neither the generator nor the iterator's next.
C10_ZeroLength ==
  N = 0 =>
    /\ calls = <<>> /\ rets = <<>> /\ pulls = <<>>
    /\ pc \in {"loop", "iloop", "done"}
    /\ Done => (Succeeded /\ DOMAIN result[2] = {})

C10_Witness == N = 0 /\ Done /\ Succeeded /\ entry = "try_collect_array"

\* the call ended in the panic that collect_array raises itself
OwnPanic == result[1] = "Panic" /\ result[2][1] = "couldnt fill buffer"

\* the call ended in a panic it only lets through, or in an abort caused by
\* one: the generator's or iterator's panic, or an element destructor's
ForeignStop ==
  \/ result[1] = "Abort"
  \/ result[1] = "Panic" /\ result[2][1] \in {"gen", "drop"}

\* C11: collect_array raises its own panic exactly when the iterator ran out
\* before N items were obtained, and the message carries N and the number k
\* of items obtained; every other way a call can stop is a panic of the
\* iterator or of an element destructor, and no entry point other than
\* collect_array ever raises a panic of its own.
C11_PanicOnlyOnShortfall ==
  Done =>
    /\ OwnPanic =>
         /\ entry = "collect_array"
         /\ pulls[Len(pulls)][1] = "None"
         /\ \A i \in 1 .. (Len(pulls) - 1) : pulls[i][1] = "Some"
         /\ result[2][2] = N
         /\ result[2][3] = Len(pulls) - 1
         /\ result[2][3] < N
    /\ (entry = "collect_array" /\ Len(pulls) > 0
          /\ pulls[Len(pulls)][1] = "None") =>
         /\ ~Succeeded
         /\ OwnPanic \/ (ForeignStop /\ \E i \in DOMAIN drops : drops[i] > 0)
    /\ (entry = "collect_array" /\ ~OwnPanic) =>
         \/ Succeeded /\ \A i \in 1 .. N : pulls[i][1] = "Some"
         \/ ForeignStop
    /\ entry = "collect_array" => result[1] # "Err"

C11_Witness ==
  /\ entry = "collect_array" /\ Done
  /\ result = <<"Panic", <<"couldnt fill buffer", 3, 2>>>>

\* C12: items cannot fail: unless next() panics it returns an array, having
\* called next exactly N times, and slot i holds what the i-th call
\* returned, Some(item) or None, also for calls made after a None; when all
\* N calls yield items, the array is the one collect_array builds from the
\* same items wrapped in Some (C3), element i being Some(i-th item).
C12_ItemsAlwaysFills ==
  entry = "items" =>
    /\ result[1] # "Err"
    /\ Len(pulls) <= N
    /\ Len(calls) = Len(pulls)
    /\ Done => (Succeeded \/ pulls[Len(pulls)][1] = "Panic")
    /\ (Done /\ Succeeded) =>
         /\ Len(pulls) = N
         /\ DOMAIN result[2] = 0 .. (N - 1)
         /\ \A i \in 0 .. (N - 1) : result[2][i] = pulls[i + 1]
         /\ (\A i \in 1 .. N : pulls[i][1] = "Some") =>
              result[2] = [i \in 0 .. (N - 1) |-> <<"Some", pulls[i + 1][2]>>]

C12_Witness ==
  /\ entry = "items" /\ Done /\ Succeeded /\ N = 3
  /\ result[2][0] = <<"None">>
  /\ result[2][1] = <<"Some", 2>>
  /\ result[2][2] = <<"None">>

Wrappers == {"collect_array", "collect_array_checked", "try_collect_array"}

\* C13: the collecting wrappers call next once per generator call and never
\* beyond what the build needs, so the borrowed iterator is advanced by
\* exactly that many calls and everything after is left in it: N calls for
\* a successful collect, k + 1 calls for a build that stops at index k.
C13_PullsOnlyWhatIsNeeded ==
  entry \in Wrappers =>
    /\ Len(pulls) = Len(calls)
    /\ Len(pulls) <= N
    /\ pc \in {"forget", "write"} => Len(pulls) = elem + 1
    /\ pc = "loop" => Len(pulls) = elem
    /\ (Done /\ Succeeded) => Len(pulls) = N
    /\ (Done /\ ~Succeeded) =>
         /\ Len(pulls) = calls[Len(calls)] + 1
         /\ result[1] = "Err" /\ entry = "try_collect_array" =>
              Len(pulls) = result[2][3] + 1
         /\ result[1] = "Err" /\ entry = "collect_array_checked" =>
              Len(pulls) = result[2][2] + 1

C13_Witness ==
  /\ entry = "collect_array_checked" /\ Done /\ Succeeded
  /\ N = 2 /\ Len(pulls) = 2

\* C14: two Structured Errors compare equal exactly when their payloads are
\* equal and their indices are equal, whatever the lengths N and O they
\* were built against.
C14_EqIgnoresLength ==
  pc = "eqdone" =>
    (eq <=> (lhs.err[2] = rhs.err[2] /\ lhs.err[3] = rhs.err[3]))

C14_Witness ==
  /\ pc = "eqdone" /\ eq
  /\ lhs.n # rhs.n
  /\ lhs.err = <<"Error", <<"Some", <<"E", "e1">>>>, 2>>

\* slot i holds a value that was stored and has not been destroyed
IsLive(i) == out[i][1] = "init" /\ drops[i] = 0

\* try_from_fn is between the start of the call and the start of cleanup
Building == pc \in {"loop", "call", "forget", "write", "cleanup"}

\* the build was given up and control is back with the caller
AbortedBuild == Done /\ result[1] \in {"Err", "Panic"}

C15_State ==
  Core =>
    /\ \A i \in DOMAIN out :
         i >= elem => (out[i] = <<"uninit">> /\ drops[i] = 0)
    /\ Building => \A i \in DOMAIN out : i < elem => IsLive(i)
    /\ (Done /\ Succeeded) => (elem = N /\ \A i \in DOMAIN out : IsLive(i))
    /\ AbortedBuild => \A i \in DOMAIN out : ~IsLive(i)

C15_Step ==
  Core =>
    /\ elem' >= elem
    /\ elem' # elem =>
         /\ elem' = elem + 1
         /\ pc = "write"
         /\ Len(rets) = elem + 1
         /\ rets[Len(rets)][1] \in {"Ok", "Some"}

\* C15: while a try_from_fn build runs, slots [0, k) are live and slots
\* [k, N) are uninitialized, where the prefix length k grows only by one,
\* after a successful generator call; once the build has aborted and
\* control is back with the caller, no slot is live.
C15_LivePrefix == []C15_State /\ [][C15_Step]_vars

C15_Witness ==
  /\ entry = "try_from_fn" /\ AbortedBuild
  /\ elem = 2 /\ N = 3
  /\ out[0][1] = "init" /\ out[1][1] = "init"
  /\ ~IsLive(0) /\ ~IsLive(1)

\* the step in which transmute_unchecked(out) is performed
Transmutes == Core /\ result[1] = "running" /\ result'[1] \in {"Ok", "Array"}

C16_Step ==
  Transmutes =>
    /\ \A i \in 0 .. (N - 1) : IsLive(i)
    /\ elem = N
    /\ guard # "armed" /\ inner # "armed"
    /\ guard \notin {"ran"} /\ inner = "none"
    /\ Len(rets) = N
    /\ \A i \in 1 .. Len(rets) : rets[i][1] \in {"Ok", "Some"}
    /\ droplog = <<>> /\ droplog' = <<>>
    /\ \A i \in DOMAIN drops : drops'[i] = 0

\* C16: transmute_unchecked(out) is performed only when all N slots are
\* live and no cleanup guard is armed, never after a generator call that
\* failed or panicked, and on that path the builder runs no destructor.
C16_TransmuteOnlyWhenFull == [][C16_Step]_vars

C16_Witness ==
  /\ entry = "try_from_fn" /\ Done /\ Succeeded /\ N = 3
  /\ \A i \in 0 .. 2 : IsLive(i)
  /\ droplog = <<>>

C17_State ==
  Core =>
    /\ pc \in {"call", "forget", "cleanup"} => guard = "armed"
    /\ pc = "write" => guard = "forgotten"
    /\ pc = "droploop" => guard = "ran"
    /\ (Done /\ ~Succeeded) => guard = "ran"
    /\ (Done /\ Succeeded) => guard = "none"
    /\ (pc = "droploop" /\ pass = 1) => inner = "armed"
    /\ pass = 2 => inner = "ran"
    /\ (Done /\ result[1] = "Err") => inner = "forgotten"

C17_Step ==
  Core =>
    /\ guard' = "ran" => guard \in {"armed", "ran"}
    /\ guard = "ran" => guard' = "ran"
    /\ guard = "forgotten" => guard' \in {"forgotten", "none"}
    /\ (guard = "armed" /\ guard' = "ran") =>
         /\ pc = "cleanup"
         /\ ~IsBuilt(rets[Len(rets)])
         /\ droplog = <<>>
    /\ (guard = "armed" /\ guard' = "forgotten") =>
         /\ pc = "forget"
         /\ Len(rets) = elem + 1
         /\ IsBuilt(rets[elem + 1])
         /\ out[elem] = <<"uninit">> /\ out'[elem] = <<"uninit">>
    /\ guard = "armed" => guard' \in {"armed", "ran", "forgotten"}
    /\ inner' = "ran" => inner \in {"armed", "ran"}
    /\ inner \in {"ran", "forgotten"} => inner' = inner
    /\ (inner = "armed" /\ inner' = "ran") => glue = "cleanup"
    /\ (inner = "armed" /\ inner' = "forgotten") => glue = "normal"

\* C17: a guard that is still armed when its scope is left (by the early
\* error return, or by unwinding) runs its action, once; a guard that was
\* forgotten never runs it; and the guard armed for index elem is forgotten
\* only after the generator call at elem returned success and before slot
\* elem is written.
C17_GuardRunsIffArmed == []C17_State /\ [][C17_Step]_vars

C17_Witness ==
  /\ entry = "try_from_fn" /\ Done /\ unw = "gen"
  /\ elem = 1 /\ guard = "ran" /\ inner = "forgotten"
  /\ drops[0] = 1

\* C18 as stated: the guard marks its action consumed when it runs, so the
\* action runs only the first time the exit path is invoked.
C18_ExitPathIdempotent == runs <= 1

\* C18, amended: the guard keeps no mark of having run: its exit path
\* (Drop::drop) calls the action every time it is invoked, so the action
\* runs exactly as often as the exit path is invoked and not at all once
\* the guard is forgotten; that the action runs at most once rests on Rust
\* invoking Drop::drop at most once per guard.
C18_RunsOncePerExit ==
  /\ runs = exits
  /\ \A i \in DOMAIN drops : drops[i] = (IF i < elem THEN runs ELSE 0)
  /\ guard = "forgotten" => runs = 0
  /\ exits <= 1 => runs <= 1

C18_Witness == guard = "ran" /\ exits = 2 /\ runs = 2 /\ elem = 2

\* C19: on every abort path of try_from_fn, the one where an element's
\* destructor panics during the cleanup included, no prefix element is
\* destroyed more than once.
C19_DestroyedAtMostOnce ==
  Core => \A i \in DOMAIN drops : drops[i] <= 1

C20_State ==
  Core =>
    /\ droplog # <<>> => droplog[1] = 0
    /\ \A p \in 1 .. (Len(droplog) - 1) :
         \/ droplog[p + 1] = droplog[p] + 1
         \/ droplog[p + 1] = 0 /\ droplog[p] = elem - 1
    /\ \A p \in 1 .. Len(droplog) : droplog[p] < elem
    /\ AbortedBuild =>
         \A i \in 0 .. (elem - 1) : \E p \in 1 .. Len(droplog) : droplog[p] = i
    /\ (AbortedBuild /\ elem > 0) => droplog[Len(droplog)] = elem - 1

C20_Step ==
  Core =>
    /\ droplog' # droplog =>
         /\ pc = "droploop"
         /\ result = <<"running">>
         /\ droplog' = Append(droplog, dj)
    /\ result # <<"running">> => droplog' = droplog

\* C20: on every abort of a build, after a returned failure and after a
\* generator panic alike, drop_in_place visits the prefix in ascending index
\* order starting at 0 (a second visit, C19, repeats that order), and every
\* prefix element has been destroyed before the error is returned or the
\* panic goes on to the caller; nothing is destroyed after that.
C20_DropOrder == []C20_State /\ [][C20_Step]_vars

C20_Witness ==
  /\ entry = "try_from_fn" /\ AbortedBuild /\ unw = "gen"
  /\ N = 3 /\ elem = 2
  /\ droplog = <<0, 1>>
====
